---------------------------- MODULE Spec2Model ----------------------------
(***************************************************************************)
(* Model of Trocr_bentham_finetuned_calibration/bentham_to_iam.py: the     *)
(* Bentham -> IAM converter (file discovery, three-tier matcher, dataset   *)
(* writer) and the seeded train/validation split.                          *)
(*                                                                         *)
(* A string is a sequence of one-character strings; a file name is such a  *)
(* string; the content of a text file is the sequence of its               *)
(* newline-terminated lines, each line held without its terminator.        *)
(***************************************************************************)
EXTENDS Integers, Sequences, FiniteSets, Bags, TLC

VARIABLES
    input,              \* the source tree and the platform, fixed during a behaviour
    pc,                 \* position of the convert run
    image_files,        \* match_images_with_transcriptions: discovered images
    text_files,         \* match_images_with_transcriptions: discovered transcriptions
    matched_pairs,      \* sequence of <<image_file, text_content>>
    unmatched_images,   \* sequence of image files
    chosen,             \* corresponding_text of each image processed so far (0: None)
    idx,                \* index of the pair the writer handles next (enumerate's i)
    gt,                 \* gt.txt of the output root
    outImages,          \* images/ of the output root: new name -> source image
    result,             \* outcome of create_iam_format_dataset
    prevGt,             \* gt.txt left in the output root of the previous convert run
    nruns,              \* convert runs started so far
    rng,                \* state of the process-wide generator of module random
    train_ratio,        \* the ratio handed to create_train_val_split
    gtTrain,            \* gt_train.txt beside gt.txt
    gtVal,              \* gt_val.txt beside gt.txt
    rngBefore,          \* the generator state the latest split was entered with
    prevSplit,          \* the split before the latest: its two files and its rngBefore
    nsplits,            \* splits run so far
    ncalls              \* other draws from module random so far

vars == <<input, pc, image_files, text_files, matched_pairs, unmatched_images,
          chosen, idx, gt, outImages, result, prevGt, nruns, rng, train_ratio,
          gtTrain, gtVal, rngBefore, prevSplit, nsplits, ncalls>>

convVars == <<pc, image_files, text_files, matched_pairs, unmatched_images,
              chosen, idx, gt, outImages, result, prevGt, nruns>>

splitVars == <<rng, train_ratio, gtTrain, gtVal, rngBefore, prevSplit, nsplits, ncalls>>

(***************************************************************************)
(* Bounds of the model.                                                    *)
(***************************************************************************)
MaxImages == 2      \* entries of Images/Lines
MaxTexts == 2       \* entries of Transcriptions
MaxRuns == 2        \* convert runs in one behaviour
MaxLines == 4       \* lines of a gt.txt handed to the standalone split
MaxSplits == 3      \* splits in one behaviour
MaxRandomCalls == 2 \* other uses of module random between splits

\* a text file: whether it exists and, if so, its lines
NoFile == [exists |-> FALSE, lines |-> <<>>]

FileOf(lines) == [exists |-> TRUE, lines |-> lines]

None == 0

(***************************************************************************)
(* Strings.                                                                *)
(***************************************************************************)
Min(a, b) == IF a < b THEN a ELSE b

\* s[from..]: the Python slice s[from-1:]
Drop(s, n) == SubSeq(s, n + 1, Len(s))

StartsWith(s, p) == Len(p) <= Len(s) /\ SubSeq(s, 1, Len(p)) = p

EndsWith(s, p) == Len(p) <= Len(s) /\ SubSeq(s, Len(s) - Len(p) + 1, Len(s)) = p

\* Python's  sub in s
Contains(sub, s) == \E k \in 0..Len(s) : StartsWith(Drop(s, k), sub)

\* Python's  s.replace(old, new)  for a non-empty old: the non-overlapping
\* occurrences of old, found left to right, each replaced by new
RECURSIVE Replace(_, _, _)
Replace(s, old, new) ==
    IF Len(s) < Len(old) THEN s
    ELSE IF StartsWith(s, old) THEN new \o Replace(Drop(s, Len(old)), old, new)
    ELSE <<Head(s)>> \o Replace(Tail(s), old, new)

Whitespace == {" ", "\n", "\t", "\r"}

\* Python's  s.strip()
RECURSIVE LStrip(_)
LStrip(s) == IF s # <<>> /\ Head(s) \in Whitespace THEN LStrip(Tail(s)) ELSE s

RECURSIVE RStrip(_)
RStrip(s) ==
    IF s # <<>> /\ s[Len(s)] \in Whitespace THEN RStrip(SubSeq(s, 1, Len(s) - 1)) ELSE s

Strip(s) == RStrip(LStrip(s))

UpperChar(c) ==
    CASE c = "a" -> "A" [] c = "b" -> "B" [] c = "e" -> "E" [] c = "f" -> "F"
      [] c = "g" -> "G" [] c = "i" -> "I" [] c = "j" -> "J" [] c = "m" -> "M"
      [] c = "n" -> "N" [] c = "p" -> "P" [] c = "t" -> "T" [] c = "x" -> "X"
      [] OTHER -> c

LowerChar(c) ==
    CASE c = "A" -> "a" [] c = "B" -> "b" [] c = "E" -> "e" [] c = "F" -> "f"
      [] c = "G" -> "g" [] c = "I" -> "i" [] c = "J" -> "j" [] c = "M" -> "m"
      [] c = "N" -> "n" [] c = "P" -> "p" [] c = "T" -> "t" [] c = "X" -> "x"
      [] OTHER -> c

\* Python's  s.upper()
Upper(s) == [k \in 1..Len(s) |-> UpperChar(s[k])]

Lower(s) == [k \in 1..Len(s) |-> LowerChar(s[k])]

(***************************************************************************)
(* pathlib: PurePath.stem, PurePath.suffix and Path.glob('*<ext>').        *)
(***************************************************************************)
\* name.rfind('.') as a 1-based position, 0 when there is no dot
LastDot(name) ==
    LET dots == {k \in 1..Len(name) : name[k] = "."}
    IN  IF dots = {} THEN 0 ELSE CHOOSE k \in dots : \A j \in dots : j <= k

\* the dot starts a suffix when it is neither the first nor the last character
HasSuffix(name) == 1 < LastDot(name) /\ LastDot(name) < Len(name)

Suffix(name) == IF HasSuffix(name) THEN Drop(name, LastDot(name) - 1) ELSE <<>>

Stem(name) == IF HasSuffix(name) THEN SubSeq(name, 1, LastDot(name) - 1) ELSE name

\* whether the pattern '*' + ext selects name: case-sensitively on a POSIX
\* flavour, with both sides case-folded on a Windows flavour
GlobMatches(name, ext, ci) ==
    IF ci THEN EndsWith(Lower(name), Lower(ext)) ELSE EndsWith(name, ext)

\* Path(dir).glob('*' + ext): the selected entries in the directory's
\* enumeration order
Glob(listing, ext, ci) == SelectSeq(listing, LAMBDA name : GlobMatches(name, ext, ci))


(***************************************************************************)
(* The source tree: a small pool of file names and of file contents.       *)
(***************************************************************************)
ImagePool ==
    << <<"1", ".", "p", "n", "g">>,
       <<"1", "-", "l", "i", "n", "e", ".", "p", "n", "g">>,
       <<"a", "_", "1", ".", "P", "N", "G">>,
       <<"a", "-", "1", ".", "j", "p", "g">>,
       <<"x", "y", "z", ".", "p", "n", "g">>,
       <<"1", ".", "P", "n", "g">>,
       <<"n", ".", "g", "i", "f">> >>

TextPool ==
    << <<"1", ".", "t", "x", "t">>,
       <<"1", "-", "l", "i", "n", "e", ".", "t", "x", "t">>,
       <<"1", "_", "l", "i", "n", "e", ".", "t", "x", "t">>,
       <<"a", "_", "1", ".", "t", "x", "t">>,
       <<"q", ".", "t", "x", "t">> >>

ContentPool ==
    { <<"a", "b">>,
      <<" ", "a", "\n", "b", "\n">> }

Range(f) == {f[k] : k \in DOMAIN f}

\* the orders in which a directory holding the entries S can be enumerated
Listings(S) == {l \in [1..Cardinality(S) -> S] : Range(l) = S}

BoundedSubsets(S, n) == {T \in SUBSET S : Cardinality(T) <= n}

\* a filesystem that folds case holds no two names differing in case only
NamesDistinct(S, ci) == ci => \A a, b \in S : Lower(a) = Lower(b) => a = b

\* a source tree with both directories, its files and what they hold; a
\* transcription outside readable cannot be opened or decoded
Trees(maxImages, maxTexts, contents, folds) ==
    UNION { UNION { { [hasImages |-> TRUE, hasTrans |-> TRUE, images |-> I, texts |-> T,
                       content |-> c, readable |-> R, ciGlob |-> ci] :
                         c \in [T -> contents], R \in SUBSET T,
                         ci \in {f \in folds : NamesDistinct(I, f)} } :
                    T \in BoundedSubsets(Range(TextPool), maxTexts) } :
            I \in BoundedSubsets(Range(ImagePool), maxImages) }

\* a source root that lacks Images/Lines, Transcriptions or both
BrokenTrees ==
    { [hasImages |-> d[1], hasTrans |-> d[2], images |-> {}, texts |-> {},
       content |-> <<>>, readable |-> {}, ciGlob |-> FALSE] :
         d \in {<<FALSE, FALSE>>, <<FALSE, TRUE>>, <<TRUE, FALSE>>} }

(***************************************************************************)
(* match_images_with_transcriptions, lines 43-55: discovery.               *)
(***************************************************************************)
image_extensions ==
    << <<".", "p", "n", "g">>, <<".", "j", "p", "g">>, <<".", "j", "p", "e", "g">>,
       <<".", "t", "i", "f", "f">>, <<".", "b", "m", "p">> >>

txt_pattern == <<".", "t", "x", "t">>

\* lines 47-49: for each extension, the glob of the extension as written and
\* then the glob of its upper-case form, appended in that order
RECURSIVE DiscoverImagesFrom(_, _, _)
DiscoverImagesFrom(k, listing, ci) ==
    IF k > Len(image_extensions) THEN <<>>
    ELSE Glob(listing, image_extensions[k], ci)
           \o Glob(listing, Upper(image_extensions[k]), ci)
           \o DiscoverImagesFrom(k + 1, listing, ci)

DiscoverImages(listing, ci) == DiscoverImagesFrom(1, listing, ci)

\* line 54
DiscoverTexts(listing, ci) == Glob(listing, txt_pattern, ci)

(***************************************************************************)
(* match_images_with_transcriptions, lines 61-89: the three strategies.    *)
(***************************************************************************)
\* a  for ... if test: ...; break  loop over the tests' outcomes: the first
\* position that passes, or None
FirstIndex(hit) ==
    LET hits == {k \in DOMAIN hit : hit[k]}
    IN  IF hits = {} THEN None ELSE CHOOSE k \in hits : \A j \in hits : k <= j

dash_line == <<"-", "l", "i", "n", "e">>
under_line == <<"_", "l", "i", "n", "e">>
dot_line == <<".", "l", "i", "n", "e">>

\* lines 75 and 78
CleanStem(stem) == Replace(Replace(Replace(stem, dash_line, <<>>), under_line, <<>>), dot_line, <<>>)

\* lines 87: stem.replace('-', '_')
DashToUnderscore(stem) == Replace(stem, <<"-">>, <<"_">>)

\* lines 67-70
Strategy1(image_stem, texts) ==
    FirstIndex([k \in DOMAIN texts |-> Stem(texts[k]) = image_stem])

\* lines 75-81
Strategy2(image_stem, texts) ==
    FirstIndex([k \in DOMAIN texts |-> CleanStem(image_stem) = CleanStem(Stem(texts[k]))])

\* lines 85-89
Strategy3(image_stem, texts) ==
    FirstIndex([k \in DOMAIN texts |->
        \/ Contains(image_stem, Stem(texts[k]))
        \/ Contains(Stem(texts[k]), image_stem)
        \/ DashToUnderscore(image_stem) = DashToUnderscore(Stem(texts[k]))])

\* the strategies run without the  if not corresponding_text  guards: a later
\* strategy overwrites what an earlier one found
CorrespondingTextUnguarded(image_file, texts) ==
    LET s3 == Strategy3(Stem(image_file), texts)
        s2 == Strategy2(Stem(image_file), texts)
    IN  IF s3 # None THEN s3
        ELSE IF s2 # None THEN s2
        ELSE Strategy1(Stem(image_file), texts)

\* lines 63-89: corresponding_text as a position of text_files, or None.  A
\* Path is always true, so  if not corresponding_text  tests for None.
CorrespondingText(image_file, texts) ==
    LET image_stem == Stem(image_file)
        s1 == Strategy1(image_stem, texts)
        s2 == Strategy2(image_stem, texts)
    IN  IF s1 # None THEN s1
        ELSE IF s2 # None THEN s2
        ELSE Strategy3(image_stem, texts)


(***************************************************************************)
(* create_iam_format_dataset, lines 163-174: names and lines written.      *)
(***************************************************************************)
IdWidth == 6

DigitChars == <<"0", "1", "2", "3", "4", "5", "6", "7", "8", "9">>

RECURSIVE Digits(_)
Digits(n) == IF n < 10 THEN <<DigitChars[n + 1]>> ELSE Digits(n \div 10) \o <<DigitChars[(n % 10) + 1]>>

\* format(n, '0<width>d'): zeros on the left up to a minimum width
RECURSIVE ZeroPad(_, _)
ZeroPad(s, width) == IF Len(s) >= width THEN s ELSE ZeroPad(<<"0">> \o s, width)

dataset_prefix == <<"b", "e", "n", "t", "h", "a", "m", "_">>

\* line 173
image_id(i) == dataset_prefix \o ZeroPad(Digits(i), IdWidth)

\* line 166
new_image_name(i, image_file) == image_id(i) \o Suffix(image_file)

\* line 174: the characters handed to f.write
gt_entry(i, text_content) == image_id(i) \o <<" ">> \o text_content \o <<"\n">>

\* what a write of s adds to a text file: s cut after each line break
RECURSIVE LinesOf(_)
LinesOf(s) ==
    IF s = <<>> THEN <<>>
    ELSE LET breaks == {k \in 1..Len(s) : s[k] = "\n"}
             k == IF breaks = {} THEN Len(s) + 1
                  ELSE CHOOSE b \in breaks : \A c \in breaks : b <= c
         IN  <<SubSeq(s, 1, k - 1)>> \o LinesOf(Drop(s, k))

\* shutil.copy2(src, dst): dst is created or replaced
CopyInto(dir, name, src) == [n \in DOMAIN dir \cup {name} |-> IF n = name THEN src ELSE dir[n]]

EmptyDir == <<>>

(***************************************************************************)
(* Binary floating point.  A natural number of any size is the sequence of *)
(* its digits in base 2^15, lowest first, without leading zeros; a         *)
(* positive double is m * 2^(-e) with m of at most 53 bits.                *)
(***************************************************************************)
MantissaBits == 53

RECURSIVE Pow2(_)
Pow2(k) == IF k = 0 THEN 1 ELSE 2 * Pow2(k - 1)

Base == Pow2(15)

\* int.bit_length of a small number
RECURSIVE BitLength(_)
BitLength(n) == IF n = 0 THEN 0 ELSE 1 + BitLength(n \div 2)

RECURSIVE BigOf(_)
BigOf(n) == IF n = 0 THEN <<>> ELSE <<n % Base>> \o BigOf(n \div Base)

RECURSIVE NatOf(_)
NatOf(a) == IF a = <<>> THEN 0 ELSE a[1] + Base * NatOf(Tail(a))

RECURSIVE Trim(_)
Trim(a) == IF a # <<>> /\ a[Len(a)] = 0 THEN Trim(SubSeq(a, 1, Len(a) - 1)) ELSE a

BigBitLength(a) ==
    IF Trim(a) = <<>> THEN 0
    ELSE 15 * (Len(Trim(a)) - 1) + BitLength(Trim(a)[Len(Trim(a))])

\* a * n + carry, for n and carry below the base
RECURSIVE MulSmall(_, _, _)
MulSmall(a, n, carry) ==
    IF a = <<>> THEN BigOf(carry)
    ELSE <<(a[1] * n + carry) % Base>> \o MulSmall(Tail(a), n, (a[1] * n + carry) \div Base)

\* quotient and remainder of a by d, for d up to the base
RECURSIVE DivMod(_, _)
DivMod(a, d) ==
    IF a = <<>> THEN [q |-> <<>>, r |-> 0]
    ELSE LET hi == DivMod(Tail(a), d)
         IN  [q |-> <<(Base * hi.r + a[1]) \div d>> \o hi.q,
              r |-> (Base * hi.r + a[1]) % d]

\* a * 2^s
RECURSIVE ShiftLeft(_, _)
ShiftLeft(a, s) ==
    IF s = 0 THEN Trim(a)
    ELSE IF s >= 15 THEN <<0>> \o ShiftLeft(a, s - 15)
    ELSE Trim(MulSmall(a, Pow2(s), 0))

\* a \div 2^s, with what the discarded bits are against one half of the
\* last place kept: -1 below, 0 equal, 1 above
RECURSIVE ShiftRight(_, _, _, _)
ShiftRight(a, s, guard, sticky) ==
    IF s = 0
    THEN [q |-> Trim(a), cmp |-> IF guard = 0 THEN -1 ELSE IF sticky THEN 1 ELSE 0]
    ELSE LET step == Min(s, 15)
             cut == DivMod(a, Pow2(step))
         IN  ShiftRight(cut.q, s - step, cut.r \div Pow2(step - 1),
                        sticky \/ guard = 1 \/ cut.r % Pow2(step - 1) # 0)

Increment(a) == Trim(MulSmall(a, 1, 1))

IsOdd(a) == a # <<>> /\ a[1] % 2 = 1

\* round to nearest, ties to even: q is the truncated value, cmp is the
\* discarded part against one half of the last place
RoundHalfEven(q, cmp) == IF cmp > 0 \/ (cmp = 0 /\ IsOdd(q)) THEN Increment(q) ELSE q

\* the double nearest to a / 2^e for a natural number a
Normalize(a, e) ==
    IF BigBitLength(a) <= MantissaBits THEN [m |-> Trim(a), e |-> e]
    ELSE LET cut == BigBitLength(a) - MantissaBits
             sh == ShiftRight(a, cut, 0, FALSE)
         IN  [m |-> RoundHalfEven(sh.q, sh.cmp), e |-> e - cut]

\* float('0.pp') for a ratio of pp hundredths, 0 < pp < 100: the double
\* nearest to pp / 100
FloatOfHundredths(pp) ==
    LET ex == CHOOSE x \in MantissaBits..(MantissaBits + 7) :
                  BigBitLength(DivMod(ShiftLeft(BigOf(pp), x), 100).q) = MantissaBits
        scaled == DivMod(ShiftLeft(BigOf(pp), ex), 100)
        cmp == IF 2 * scaled.r > 100 THEN 1 ELSE IF 2 * scaled.r < 100 THEN -1 ELSE 0
    IN  [m |-> RoundHalfEven(Trim(scaled.q), cmp), e |-> ex]

\* n * f for an int n below the base and a double f: n converts exactly, the
\* product is rounded once
IntTimesFloat(n, f) == Normalize(MulSmall(f.m, n, 0), f.e)

\* int(f) for a double f >= 0: truncation
IntOfFloat(f) == NatOf(ShiftRight(f.m, f.e, 0, FALSE).q)

(***************************************************************************)
(* Module random: the Mersenne Twister.  A generator state is the seed it  *)
(* was last seeded with and the number of 32-bit words drawn since.  The   *)
(* tables hold the 16 high bits of the first words that follow             *)
(* random.seed(1), random.seed(2) and random.seed(42).                     *)
(***************************************************************************)
MT1 ==
    << 8805, 37303, 55537, 52577, 50054, 4135, 16716, 7727, 32468, 49870,
       29457, 30949, 42702, 24878, 51689, 13759, 6151, 31972, 1857, 58544,
       54772, 25546, 28361, 39809, 49956, 50276, 138, 45602, 29188, 17454,
       47286, 52548, 14992, 38741, 61949, 6699, 59075, 20803, 2004, 1462 >>

MT2 ==
    << 62654, 56564, 62116, 55643, 3706, 6002, 5562, 23662, 54755, 11081,
       48232, 53016, 43891, 55956, 20194, 16487, 39711, 13907, 39767, 2341,
       38089, 44646, 10379, 65517, 28224, 41842, 25790, 52669, 47383, 56376,
       65196, 33362, 62219, 24383, 35663, 61322, 29153, 32903, 17579, 59061 >>

MT42 ==
    << 41905, 7296, 1639, 48598, 18024, 16049, 14628, 9144, 48265, 6717,
       44348, 48540, 58469, 35741, 5697, 38698, 27651, 2082, 1952, 6140,
       14328, 15247, 33118, 39453, 1739, 36781, 13031, 46925, 42590, 45962,
       35713, 27493, 14446, 29439, 38618, 18231, 53046, 56970, 425, 49729,
       52810, 10463, 45753, 27696, 22298, 18210, 10189, 14110, 62731, 50036,
       22059, 6698, 6078, 24898, 6338, 23526, 55541, 22541, 39565, 17335,
       52895, 2847, 47823, 30108, 35142, 8180, 63774, 60443, 24807, 5164,
       36178, 19213, 54355, 41198, 40535, 58028, 56472, 23700, 37837, 12601,
       46174, 4558, 3003, 43336, 14935, 50663, 18965, 64567, 5229, 56054,
       15256, 56785, 6619, 24911, 18217, 29714, 41660, 54664, 23909, 10659,
       24260, 23283, 13730, 43920, 17496, 45994, 61384, 44796, 42469, 4679,
       39920, 41613, 11215, 35005, 47784, 16043, 10708, 30294, 24867, 17691,
       64849, 60646, 41943, 45099, 36500, 14392, 44866, 21252, 55237, 50352,
       50855, 3665, 15010, 53857, 2103, 52759, 20673, 26290, 17546, 4337,
       13826, 59843, 61794, 37170, 57433, 47049, 20622, 13934, 42954, 32717,
       25928, 57978, 59935, 42129, 30071, 9363, 17359, 9150, 16162, 48823 >>

WordsOf(seed) == IF seed = 1 THEN MT1 ELSE IF seed = 2 THEN MT2 ELSE MT42

\* the next word of the generator; no run of the program as written reads
\* past a table, and a position beyond it wraps
NextWord(g) == WordsOf(g.seed)[(g.pos % Len(WordsOf(g.seed))) + 1]

Advance(g) == [g EXCEPT !.pos = g.pos + 1]

\* Random.getrandbits(k) for k <= 16: the k high bits of the next word
GetRandBits(g, k) == NextWord(g) \div Pow2(16 - k)

\* Random._randbelow_with_getrandbits(n): draw bit_length(n) bits until the
\* value is below n
RECURSIVE RandBelow(_, _)
RandBelow(g, n) ==
    IF GetRandBits(g, BitLength(n)) < n
    THEN [value |-> GetRandBits(g, BitLength(n)), g |-> Advance(g)]
    ELSE RandBelow(Advance(g), n)

Swap(x, a, b) == [x EXCEPT ![a] = x[b], ![b] = x[a]]

\* Random.shuffle(x):  for i in reversed(range(1, len(x))):
\*                         j = randbelow(i + 1); x[i], x[j] = x[j], x[i]
RECURSIVE ShuffleFrom(_, _, _)
ShuffleFrom(x, i, g) ==
    IF i < 1 \/ x = <<>> THEN [x |-> x, g |-> g]
    ELSE LET d == RandBelow(g, i + 1)
         IN  ShuffleFrom(Swap(x, i + 1, d.value + 1), i - 1, d.g)

Shuffle(x, g) == ShuffleFrom(x, Len(x) - 1, g)

\* the generator is left as it is
SeedKeepsState(g, a) == g

\* random.seed(a)
Seed(g, a) == [seed |-> a, pos |-> 0]

(***************************************************************************)
(* create_train_val_split, lines 197-238.  A ratio is held as the number   *)
(* of hundredths of its decimal text.                                      *)
(***************************************************************************)
default_train_ratio == 80

SplitSeed == 42

\* line 222
split_point(all_entries, ratio) ==
    IntOfFloat(IntTimesFloat(Len(all_entries), FloatOfHundredths(ratio)))

create_train_val_split(ratio) ==
    /\ train_ratio' = ratio
    /\ nsplits' = nsplits + 1
    /\ prevSplit' = [train |-> gtTrain, val |-> gtVal, rng |-> rngBefore]
    /\ rngBefore' = rng
    /\ IF gt = NoFile
       THEN UNCHANGED <<rng, gtTrain, gtVal>>
       ELSE LET shuffled == Shuffle(gt.lines, Seed(rng, SplitSeed))
                all_entries == shuffled.x
                train_entries == SubSeq(all_entries, 1, split_point(all_entries, ratio))
                val_entries == Drop(all_entries, split_point(all_entries, ratio))
            IN  /\ rng' = shuffled.g
                /\ gtTrain' = FileOf(train_entries)
                /\ gtVal' = FileOf(val_entries)
    /\ UNCHANGED <<input, ncalls>>

(***************************************************************************)
(* The convert run, create_iam_format_dataset, as steps.                   *)
(***************************************************************************)
\* lines 135-141
CheckDirs ==
    /\ pc = "start"
    /\ IF input.hasImages /\ input.hasTrans
       THEN pc' = "discover" /\ result' = result
       ELSE pc' = "done" /\ result' = "False"
    /\ UNCHANGED <<input, image_files, text_files, matched_pairs, unmatched_images,
                   chosen, idx, gt, outImages, prevGt, nruns>>
    /\ UNCHANGED splitVars

\* lines 149-152 and 43-59: the output tree is made, both directories are
\* listed in whatever order the filesystem enumerates them in
Discover ==
    /\ pc = "discover"
    /\ \E il \in Listings(input.images), tl \in Listings(input.texts) :
          /\ image_files' = DiscoverImages(il, input.ciGlob)
          /\ text_files' = DiscoverTexts(tl, input.ciGlob)
    /\ matched_pairs' = <<>>
    /\ unmatched_images' = <<>>
    /\ chosen' = <<>>
    /\ pc' = "match"
    /\ UNCHANGED <<input, idx, gt, outImages, result, prevGt, nruns>>
    /\ UNCHANGED splitVars

\* lines 61-104: one iteration of  for image_file in image_files
MatchStep ==
    /\ pc = "match"
    /\ Len(chosen) < Len(image_files)
    /\ LET image_file == image_files[Len(chosen) + 1]
           corresponding_text == CorrespondingText(image_file, text_files)
       IN  /\ chosen' = Append(chosen, corresponding_text)
           /\ IF corresponding_text # None
              THEN /\ unmatched_images' = unmatched_images
                   /\ IF text_files[corresponding_text] \in input.readable
                      THEN matched_pairs' =
                             Append(matched_pairs,
                                    <<image_file, Strip(input.content[text_files[corresponding_text]])>>)
                      ELSE matched_pairs' = matched_pairs
              ELSE /\ unmatched_images' = Append(unmatched_images, image_file)
                   /\ matched_pairs' = matched_pairs
    /\ UNCHANGED <<input, pc, image_files, text_files, idx, gt, outImages, result,
                   prevGt, nruns>>
    /\ UNCHANGED splitVars

\* lines 117 and 154-163: the matcher returns; no pairs ends the run, else
\* gt.txt is opened for writing, which creates it empty
MatchDone ==
    /\ pc = "match"
    /\ Len(chosen) = Len(image_files)
    /\ IF matched_pairs = <<>>
       THEN pc' = "done" /\ result' = "False" /\ gt' = gt /\ idx' = idx
       ELSE pc' = "write" /\ result' = result /\ gt' = FileOf(<<>>) /\ idx' = 0
    /\ UNCHANGED <<input, image_files, text_files, matched_pairs, unmatched_images,
                   chosen, outImages, prevGt, nruns>>
    /\ UNCHANGED splitVars

\* lines 164-174: one iteration of the writing loop
WriteStep ==
    /\ pc = "write"
    /\ idx < Len(matched_pairs)
    /\ LET image_file == matched_pairs[idx + 1][1]
           text_content == matched_pairs[idx + 1][2]
       IN  /\ outImages' = CopyInto(outImages, new_image_name(idx, image_file), image_file)
           /\ gt' = FileOf(gt.lines \o LinesOf(gt_entry(idx, text_content)))
    /\ idx' = idx + 1
    /\ UNCHANGED <<input, pc, image_files, text_files, matched_pairs, unmatched_images,
                   chosen, result, prevGt, nruns>>
    /\ UNCHANGED splitVars

\* line 169 raises (disk full, permission): the with block closes gt.txt with
\* the lines written so far and the exception leaves the function
CopyFails ==
    /\ pc = "write"
    /\ idx < Len(matched_pairs)
    /\ pc' = "done"
    /\ result' = "raised"
    /\ UNCHANGED <<input, image_files, text_files, matched_pairs, unmatched_images,
                   chosen, idx, gt, outImages, prevGt, nruns>>
    /\ UNCHANGED splitVars

\* line 174 raises after the copy of line 169 was made
WriteFails ==
    /\ pc = "write"
    /\ idx < Len(matched_pairs)
    /\ outImages' = CopyInto(outImages, new_image_name(idx, matched_pairs[idx + 1][1]),
                             matched_pairs[idx + 1][1])
    /\ pc' = "done"
    /\ result' = "raised"
    /\ UNCHANGED <<input, image_files, text_files, matched_pairs, unmatched_images,
                   chosen, idx, gt, prevGt, nruns>>
    /\ UNCHANGED splitVars

\* lines 179-195
WriteDone ==
    /\ pc = "write"
    /\ idx = Len(matched_pairs)
    /\ pc' = "done"
    /\ result' = "True"
    /\ UNCHANGED <<input, image_files, text_files, matched_pairs, unmatched_images,
                   chosen, idx, gt, outImages, prevGt, nruns>>
    /\ UNCHANGED splitVars

\* the converter is started again on the same source root with a fresh
\* output directory; the gt.txt of the run before stays where it was written
NewRun ==
    /\ pc = "done"
    /\ nruns < MaxRuns
    /\ nruns' = nruns + 1
    /\ prevGt' = IF result = "True" THEN gt ELSE NoFile
    /\ pc' = "start"
    /\ result' = "running"
    /\ gt' = NoFile
    /\ outImages' = EmptyDir
    /\ image_files' = <<>>
    /\ text_files' = <<>>
    /\ matched_pairs' = <<>>
    /\ unmatched_images' = <<>>
    /\ chosen' = <<>>
    /\ idx' = 0
    /\ gtTrain' = NoFile
    /\ gtVal' = NoFile
    /\ UNCHANGED <<input, rng, train_ratio, rngBefore, prevSplit, nsplits, ncalls>>

ConvInit ==
    /\ pc = "start"
    /\ image_files = <<>>
    /\ text_files = <<>>
    /\ matched_pairs = <<>>
    /\ unmatched_images = <<>>
    /\ chosen = <<>>
    /\ idx = 0
    /\ gt = NoFile
    /\ outImages = EmptyDir
    /\ result = "running"
    /\ prevGt = NoFile
    /\ nruns = 1

\* lines 276-278: the split that follows a successful conversion, with the
\* default ratio
MainSplit ==
    /\ pc = "done"
    /\ result = "True"
    /\ gtTrain = NoFile
    /\ create_train_val_split(default_train_ratio)
    /\ UNCHANGED convVars

\* create_train_val_split called on a directory that holds a gt.txt
StandaloneSplit ==
    /\ pc = "standalone"
    /\ nsplits < MaxSplits
    /\ create_train_val_split(train_ratio)
    /\ UNCHANGED convVars

\* any other draw from module random in the same process
RandomCall ==
    /\ ncalls < MaxRandomCalls
    /\ rng' = Advance(rng)
    /\ ncalls' = ncalls + 1
    /\ UNCHANGED <<input, train_ratio, gtTrain, gtVal, rngBefore, prevSplit, nsplits>>
    /\ UNCHANGED convVars

\* the generator as the interpreter seeds it at start-up: one of two seeds
\* stands for the entropy of the operating system
StartSeeds == {1, 2}

NoRng == [seed |-> 0, pos |-> 0]

NoSplit == [train |-> NoFile, val |-> NoFile, rng |-> NoRng]

SplitIdle ==
    /\ train_ratio = default_train_ratio
    /\ gtTrain = NoFile
    /\ gtVal = NoFile
    /\ rngBefore = NoRng
    /\ prevSplit = NoSplit
    /\ nsplits = 0
    /\ ncalls = 0

Init ==
    /\ input \in Trees(MaxImages, MaxTexts, ContentPool, BOOLEAN) \cup BrokenTrees
    /\ ConvInit
    /\ SplitIdle
    /\ rng = [seed |-> 1, pos |-> 0]

Convert ==
    \/ CheckDirs
    \/ Discover
    \/ MatchStep
    \/ MatchDone
    \/ WriteStep
    \/ CopyFails
    \/ WriteFails
    \/ WriteDone

Next ==
    \/ Convert
    \/ MainSplit
    \/ NewRun

Spec == Init /\ [][Next]_vars

(***************************************************************************)
(* The matcher alone: every readable source tree on a POSIX flavour, one   *)
(* run up to the end of matching.                                          *)
(***************************************************************************)
PlainContent == {<<"a", "b">>}

InitMatch ==
    /\ input \in {t \in Trees(MaxImages, MaxTexts, PlainContent, {FALSE}) :
                     t.readable = t.texts}
    /\ ConvInit
    /\ SplitIdle
    /\ rng = [seed |-> 1, pos |-> 0]

NextMatch ==
    \/ CheckDirs
    \/ Discover
    \/ MatchStep

SpecMatch == InitMatch /\ [][NextMatch]_vars

(***************************************************************************)
(* The split alone, on a gt.txt as the writer leaves it.                   *)
(***************************************************************************)
RECURSIVE WrittenGt(_, _)
WrittenGt(n, text_content) ==
    IF n = 0 THEN <<>>
    ELSE WrittenGt(n - 1, text_content) \o LinesOf(gt_entry(n - 1, text_content))

LargeCounts == {10, 90}

Ratios == {20, 50, 70, 80}

GtFiles ==
    {NoFile}
      \cup {FileOf(WrittenGt(n, Strip(c))) : n \in 0..MaxLines, c \in ContentPool}
      \cup {FileOf(WrittenGt(n, <<"a", "b">>)) : n \in LargeCounts}

InitSplit ==
    /\ input \in {t \in BrokenTrees : ~t.hasImages /\ ~t.hasTrans}
    /\ pc = "standalone"
    /\ image_files = <<>>
    /\ text_files = <<>>
    /\ matched_pairs = <<>>
    /\ unmatched_images = <<>>
    /\ chosen = <<>>
    /\ idx = 0
    /\ gt \in GtFiles
    /\ outImages = EmptyDir
    /\ result = "running"
    /\ prevGt = NoFile
    /\ nruns = 0
    /\ train_ratio \in Ratios
    /\ gtTrain = NoFile
    /\ gtVal = NoFile
    /\ rngBefore = NoRng
    /\ prevSplit = NoSplit
    /\ nsplits = 0
    /\ ncalls = 0
    /\ rng \in {[seed |-> sd, pos |-> 0] : sd \in StartSeeds}

NextSplit ==
    \/ StandaloneSplit
    \/ RandomCall

SpecSplit == InitSplit /\ [][NextSplit]_vars

(***************************************************************************)
(* Vocabulary of the properties.                                           *)
(***************************************************************************)
Succeeded == pc = "done" /\ result = "True"

Failed == pc = "done" /\ result \in {"False", "raised"}

\* discovery has run and its lists are those of the current run
Discovered == pc \in {"match", "write"} \/ (pc = "done" /\ input.hasImages /\ input.hasTrans)

\* the matcher has handled every discovered image
Matched == pc = "write" \/ (pc = "done" /\ input.hasImages /\ input.hasTrans)

Count(seq, x) == Cardinality({p \in DOMAIN seq : seq[p] = x})

SeqToBag(seq) == [x \in Range(seq) |-> Count(seq, x)]

ImagesOf(pairs) == [p \in DOMAIN pairs |-> pairs[p][1]]

\* n written with exactly six decimal digits
SixDigits(n) ==
    << DigitChars[((n \div 100000) % 10) + 1], DigitChars[((n \div 10000) % 10) + 1],
       DigitChars[((n \div 1000) % 10) + 1], DigitChars[((n \div 100) % 10) + 1],
       DigitChars[((n \div 10) % 10) + 1], DigitChars[(n % 10) + 1] >>

\* the id field of a line of gt.txt: what stands before its first space
IdField(line) ==
    LET spaces == {p \in 1..Len(line) : line[p] = " "}
    IN  IF spaces = {} THEN line
        ELSE SubSeq(line, 1, (CHOOSE p \in spaces : \A r \in spaces : p <= r) - 1)

LowerLetters == {"a", "b", "e", "h", "m", "n", "t"}

\* ^[a-z]+_\d{6}$
IsIamId(id) ==
    /\ Len(id) >= 8
    /\ \A p \in 1..(Len(id) - 7) : id[p] \in LowerLetters
    /\ id[Len(id) - 6] = "_"
    /\ \A p \in (Len(id) - 5)..Len(id) : id[p] \in Range(DigitChars)

\* a text with every line break turned into a space
Collapse(text) == [p \in 1..Len(text) |-> IF text[p] = "\n" THEN " " ELSE text[p]]

\* the stem without the fragments -line, _line and .line
WithoutLineFragments(stem) ==
    Replace(Replace(Replace(stem, <<"-", "l", "i", "n", "e">>, <<>>),
                    <<"_", "l", "i", "n", "e">>, <<>>),
            <<".", "l", "i", "n", "e">>, <<>>)

\* whether a transcription stem is a candidate for an image stem in a tier
InTier(tier, image_stem, text_stem) ==
    CASE tier = 1 -> image_stem = text_stem
      [] tier = 2 -> WithoutLineFragments(image_stem) = WithoutLineFragments(text_stem)
      [] tier = 3 -> \/ Contains(image_stem, text_stem)
                     \/ Contains(text_stem, image_stem)
                     \/ Replace(image_stem, <<"-">>, <<"_">>) = Replace(text_stem, <<"-">>, <<"_">>)

Candidates(tier, image_file) ==
    {p \in 1..Len(text_files) : InTier(tier, Stem(image_file), Stem(text_files[p]))}

HasCandidate(image_file) == \E tier \in 1..3 : Candidates(tier, image_file) # {}

\* the first candidate of the lowest-numbered tier that has one
TierChoice(image_file) ==
    LET tier == CHOOSE t \in 1..3 :
                    /\ Candidates(t, image_file) # {}
                    /\ \A u \in 1..(t - 1) : Candidates(u, image_file) = {}
    IN  CHOOSE p \in Candidates(tier, image_file) : \A r \in Candidates(tier, image_file) : p <= r

(***************************************************************************)
(* C1: after a successful convert run into a clean output directory, the   *)
(* number of lines of gt.txt, the number of files in images/ and the       *)
(* number of matched pairs are equal.                                      *)
(***************************************************************************)
C1_CountsAgree ==
    Succeeded =>
        /\ Len(gt.lines) = Cardinality(DOMAIN outImages)
        /\ Cardinality(DOMAIN outImages) = Len(matched_pairs)

(***************************************************************************)
(* C2: after a successful convert run with n matched pairs, gt.txt holds   *)
(* the ids bentham_000000 .. bentham_<n-1>, six digits each, in pair order *)
(* without gap or duplicate, every id matches ^[a-z]+_\d{6}$, and images/  *)
(* holds exactly the files <id><original extension>.                       *)
(***************************************************************************)
C2_SequentialIds ==
    Succeeded =>
        /\ Len(gt.lines) = Len(matched_pairs)
        /\ \A p \in 1..Len(gt.lines) :
              /\ IdField(gt.lines[p]) = dataset_prefix \o SixDigits(p - 1)
              /\ IsIamId(IdField(gt.lines[p]))
        /\ DOMAIN outImages =
              {dataset_prefix \o SixDigits(p - 1) \o Suffix(matched_pairs[p][1]) :
                  p \in 1..Len(matched_pairs)}

(***************************************************************************)
(* C3: for every image the matcher has handled, the transcription it picks *)
(* is the first candidate, in discovery order, of the lowest-numbered tier *)
(* that has a candidate; the image is recorded unmatched exactly when no   *)
(* tier has one.                                                           *)
(***************************************************************************)
C3_TierPriority ==
    /\ \A p \in 1..Len(chosen) :
          IF HasCandidate(image_files[p])
          THEN chosen[p] = TierChoice(image_files[p])
          ELSE chosen[p] = None
    /\ unmatched_images =
          SelectSeq(SubSeq(image_files, 1, Len(chosen)), LAMBDA f : ~HasCandidate(f))

\* an image was given a transcription of a higher tier although a candidate
\* of tier 3 only stands earlier in the list, and another image went unmatched
C3_Witness ==
    /\ pc = "match"
    /\ unmatched_images # <<>>
    /\ \E p \in 1..Len(chosen) :
          /\ chosen[p] > 1
          /\ 1 \in Candidates(3, image_files[p])
          /\ 1 \notin Candidates(1, image_files[p]) \cup Candidates(2, image_files[p])
          /\ chosen[p] \in Candidates(1, image_files[p]) \cup Candidates(2, image_files[p])

(***************************************************************************)
(* C4: once the matcher has handled every image, each discovered image is  *)
(* in exactly one of matched_pairs and unmatched_images (an image whose    *)
(* transcription could not be read being unmatched), so the two counts add *)
(* up to the number of discovered images.                                  *)
(***************************************************************************)
C4_MatchedOrUnmatched ==
    Matched =>
        /\ Len(matched_pairs) + Len(unmatched_images) = Len(image_files)
        /\ \A f \in Range(image_files) :
              Count(ImagesOf(matched_pairs), f) + Count(unmatched_images, f)
                  = Count(image_files, f)

(***************************************************************************)
(* C5: after a successful convert run, gt.txt holds for every matched pair *)
(* exactly one line <id> <text>, the text trimmed and its line breaks      *)
(* collapsed.                                                              *)
(***************************************************************************)
C5_OneLinePerPair ==
    Succeeded =>
        /\ Len(gt.lines) = Len(matched_pairs)
        /\ \A p \in 1..Len(matched_pairs) :
              /\ Strip(matched_pairs[p][2]) = matched_pairs[p][2]
              /\ gt.lines[p] = image_id(p - 1) \o <<" ">> \o Collapse(matched_pairs[p][2])

(***************************************************************************)
(* C6: after a split of an existing gt.txt with N lines and ratio r, the   *)
(* lines of gt_train.txt and gt_val.txt together are the lines of gt.txt   *)
(* as a multiset, no entry is in both, gt_train.txt has floor(r * N)       *)
(* lines and gt_val.txt the other N - floor(r * N), and gt_train.txt       *)
(* followed by gt_val.txt is the shuffled sequence.                        *)
(***************************************************************************)
C6_SplitPartition ==
    (nsplits >= 1 /\ gt.exists) =>
        /\ gtTrain.exists /\ gtVal.exists
        /\ SeqToBag(gtTrain.lines) (+) SeqToBag(gtVal.lines) = SeqToBag(gt.lines)
        /\ (\A x \in Range(gt.lines) : Count(gt.lines, x) = 1)
              => Range(gtTrain.lines) \cap Range(gtVal.lines) = {}
        /\ Len(gtTrain.lines) = (train_ratio * Len(gt.lines)) \div 100
        /\ Len(gtVal.lines) = Len(gt.lines) - (train_ratio * Len(gt.lines)) \div 100
        /\ gtTrain.lines \o gtVal.lines = Shuffle(gt.lines, Seed(rngBefore, SplitSeed)).x

(***************************************************************************)
(* C7: two splits of the same gt.txt with the same ratio write the same    *)
(* gt_train.txt and the same gt_val.txt, whatever state the generator of   *)
(* module random was in before each of them.                               *)
(***************************************************************************)
C7_SplitDeterministic ==
    nsplits >= 2 => (gtTrain = prevSplit.train /\ gtVal = prevSplit.val)

\* two splits of a file whose shuffle changes the order of its lines and
\* leaves both parts non-empty: the first entered with the generator as
\* seeded at start-up, the second after a further draw had moved the
\* generator from where the first split left it
C7_Witness ==
    /\ nsplits = 2
    /\ ncalls >= 1
    /\ prevSplit.rng.seed \in StartSeeds
    /\ rngBefore.seed = SplitSeed
    /\ rngBefore # Shuffle(gt.lines, Seed(rngBefore, SplitSeed)).g
    /\ gt.exists
    /\ gtTrain.lines \o gtVal.lines # gt.lines
    /\ gtTrain.lines # <<>>
    /\ gtVal.lines # <<>>

(***************************************************************************)
(* C8: when a convert run fails (a missing source directory, no matched    *)
(* pair, a copy or write error in the writing loop), gt.txt is absent from *)
(* the output root when the run ends; it is present only when the run      *)
(* completed with every matched pair written.                              *)
(***************************************************************************)
C8_NoGtOnFailure ==
    /\ Failed => ~gt.exists
    /\ (pc = "done" /\ gt.exists) => (result = "True" /\ idx = Len(matched_pairs))

(***************************************************************************)
(* C9: two successful convert runs over the same unchanged source tree,    *)
(* each into a clean output directory, write the same gt.txt, whatever     *)
(* order the directories are enumerated in.                                *)
(***************************************************************************)
C9_SameGtOnRerun ==
    (Succeeded /\ nruns >= 2 /\ prevGt.exists) => gt = prevGt

(***************************************************************************)
(* C10: the discovered image list holds every file of the image directory  *)
(* whose extension is one of .png .jpg .jpeg .tiff .bmp in any mix of      *)
(* case, each exactly once, and no other file.                             *)
(***************************************************************************)
C10_DiscoveryExact ==
    Discovered =>
        /\ Range(image_files) \subseteq input.images
        /\ \A f \in input.images :
              Count(image_files, f) =
                  IF Lower(Suffix(f)) \in Range(image_extensions) THEN 1 ELSE 0

=============================================================================
